---------------------------- MODULE Spec2Model ----------------------------
(***************************************************************************)
(* Model of h-version: Version::parse, the Ord / PartialEq implementations *)
(* of Version, its Display and Debug renderings (src/src/version.rs) and   *)
(* the command-line entry point (src/src/main.rs).                         *)
(*                                                                         *)
(* A Rust String is modelled as the sequence of its bytes (ASCII codes),   *)
(* so that str::cmp is the lexicographic order of the sequences.  Option   *)
(* values are sequences of length 0 (None) or 1 (Some(x)).                 *)
(***************************************************************************)
EXTENDS Integers, Sequences, FiniteSets, TLC

VARIABLES
    pc,       \* position of the caller: start, parsed, compared, displayed, debugged, exited
    args,     \* the input strings (process arguments / arguments of Version::parse)
    vers,     \* the Version records parsed from args, in order
    verdict,  \* verdict[i][j]: the Ordering returned by vers[i].cmp(&vers[j])
    out,      \* the renderings of vers (Display or Debug, according to pc)
    cli       \* what main printed and its exit status

vars == <<pc, args, vers, verdict, out, cli>>

---------------------------------------------------------------------------
(* Bytes and strings *)

\* Printable ASCII, from code 32 (space) to 126 (~); code 96 is spelled out.
Ascii ==
    << " ", "!", "\"", "#", "$", "%", "&", "'", "(", ")", "*", "+", ",", "-", ".", "/",
       "0", "1", "2", "3", "4", "5", "6", "7", "8", "9", ":", ";", "<", "=", ">", "?",
       "@", "A", "B", "C", "D", "E", "F", "G", "H", "I", "J", "K", "L", "M", "N", "O",
       "P", "Q", "R", "S", "T", "U", "V", "W", "X", "Y", "Z", "[", "\\", "]", "^", "_",
       "grave", "a", "b", "c", "d", "e", "f", "g", "h", "i", "j", "k", "l", "m", "n", "o",
       "p", "q", "r", "s", "t", "u", "v", "w", "x", "y", "z", "{", "|", "}", "~" >>

Code(ch) == 31 + (CHOOSE i \in DOMAIN Ascii : Ascii[i] = ch)

\* The byte string spelled by a tuple of one-character strings.
Str(t) == [i \in DOMAIN t |-> Code(t[i])]

COLON  == Code(":")
PLUS   == Code("+")
HYPHEN == Code("-")
DOT    == Code(".")
QUOTE  == Code("\"")
BSLASH == Code("\\")

None == <<>>
Some(x) == <<x>>

RECURSIVE Concat(_)
Concat(ss) == IF ss = <<>> THEN <<>> ELSE Head(ss) \o Concat(Tail(ss))

---------------------------------------------------------------------------
(* str::parse::<u64> and u64::to_string *)

IsDigit(c) == c \in Code("0")..Code("9")

RECURSIVE DigitsValue(_)
DigitsValue(s) ==
    IF s = <<>> THEN 0
    ELSE 10 * DigitsValue(SubSeq(s, 1, Len(s) - 1)) + (s[Len(s)] - Code("0"))

\* s.parse::<u64>().ok(): an optional leading '+', then one or more decimal
\* digits.  (The digit runs of the model stay below ten digits, so the
\* overflow error of the conversion is not reachable here.)
ParseU64(s) ==
    IF s = <<>> THEN None
    ELSE LET digits == IF s[1] = PLUS THEN Tail(s) ELSE s
         IN  IF digits = <<>> \/ \E i \in DOMAIN digits : ~IsDigit(digits[i])
             THEN None
             ELSE Some(DigitsValue(digits))

RECURSIVE U64ToString(_)
U64ToString(n) ==
    IF n < 10 THEN <<Code("0") + n>>
    ELSE U64ToString(n \div 10) \o <<Code("0") + (n % 10)>>

---------------------------------------------------------------------------
(* str::splitn(2, d) and str::split([..]) *)

\* Index of the first byte of s that is in D, 0 when there is none.
FirstIndex(s, D) ==
    IF \E i \in DOMAIN s : s[i] \in D
    THEN CHOOSE i \in DOMAIN s : s[i] \in D /\ \A j \in 1..(i - 1) : s[j] \notin D
    ELSE 0

\* s.splitn(2, d): <<s>> when d does not occur, else <<before, after>> the first d.
SplitN2(s, d) ==
    LET i == FirstIndex(s, {d})
    IN  IF i = 0 THEN <<s>>
        ELSE <<SubSeq(s, 1, i - 1), SubSeq(s, i + 1, Len(s))>>

\* A split that drops empty tokens (what split(..).filter(|s| !s.is_empty()) would do).
RECURSIVE SplitDroppingEmpty(_, _)
SplitDroppingEmpty(s, D) ==
    LET i == FirstIndex(s, D)
        keep(t) == IF t = <<>> THEN <<>> ELSE <<t>>
    IN  IF i = 0 THEN keep(s)
        ELSE keep(SubSeq(s, 1, i - 1)) \o SplitDroppingEmpty(SubSeq(s, i + 1, Len(s)), D)

\* s.split(D): every token between delimiters, empty tokens kept; never empty.
RECURSIVE Split(_, _)
Split(s, D) ==
    LET i == FirstIndex(s, D)
    IN  IF i = 0 THEN <<s>>
        ELSE <<SubSeq(s, 1, i - 1)>> \o Split(SubSeq(s, i + 1, Len(s)), D)

---------------------------------------------------------------------------
(* Version::parse *)

Parse(version_str) ==
    LET parts1         == SplitN2(version_str, COLON)
        epoch          == ParseU64(parts1[1])
        rest           == IF Len(parts1) = 2 THEN parts1[2] ELSE version_str
        parts2         == SplitN2(rest, PLUS)
        version_part   == parts2[1]
        build_metadata == IF Len(parts2) = 2 THEN Some(parts2[2]) ELSE None
        parts3         == SplitN2(version_part, HYPHEN)
        main_version   == parts3[1]
        pre_release    == IF Len(parts3) = 2 THEN Some(parts3[2]) ELSE None
        components     == Split(main_version, {DOT, HYPHEN})
    IN  [epoch          |-> epoch,
         components     |-> components,
         pre_release    |-> pre_release,
         build_metadata |-> build_metadata]

\* impl PartialEq: eq and ne
Eq(a, b) ==
    /\ a.epoch = b.epoch
    /\ a.components = b.components
    /\ a.pre_release = b.pre_release
    /\ a.build_metadata = b.build_metadata

Ne(a, b) ==
    \/ a.epoch # b.epoch
    \/ a.components # b.components
    \/ a.pre_release # b.pre_release
    \/ a.build_metadata # b.build_metadata

---------------------------------------------------------------------------
(* impl Ord for Version *)

\* u64::cmp
U64Cmp(a, b) == IF a < b THEN "Less" ELSE IF a > b THEN "Greater" ELSE "Equal"

\* An epoch order that ranks a missing epoch above every present one.
OptionU64CmpNoneHighest(a, b) ==
    IF a = None /\ b = None THEN "Equal"
    ELSE IF a = None THEN "Greater"
    ELSE IF b = None THEN "Less"
    ELSE U64Cmp(a[1], b[1])

\* Option<u64>::partial_cmp, always Some(_): None is below every Some, two
\* Some compare by value.
OptionU64Cmp(a, b) ==
    IF a = None /\ b = None THEN "Equal"
    ELSE IF a = None THEN "Less"
    ELSE IF b = None THEN "Greater"
    ELSE U64Cmp(a[1], b[1])

\* str::cmp: lexicographic by byte, a proper prefix is Less.
RECURSIVE StrCmp(_, _)
StrCmp(a, b) ==
    IF a = <<>> /\ b = <<>> THEN "Equal"
    ELSE IF a = <<>> THEN "Less"
    ELSE IF b = <<>> THEN "Greater"
    ELSE IF a[1] < b[1] THEN "Less"
    ELSE IF a[1] > b[1] THEN "Greater"
    ELSE StrCmp(Tail(a), Tail(b))

\* str::to_lowercase on ASCII text
ToLowercase(s) ==
    [i \in DOMAIN s |-> IF s[i] \in Code("A")..Code("Z") THEN s[i] + (Code("a") - Code("A")) ELSE s[i]]

\* The body of the component loop for one pair (a, b) of the zip; "Equal"
\* stands for falling through to the next pair.
ComponentCmp(a, b) ==
    LET a_num == ParseU64(a)
        b_num == ParseU64(b)
    IN  IF a_num # None /\ b_num # None THEN U64Cmp(a_num[1], b_num[1])
        ELSE IF a_num # None THEN "Less"
        ELSE IF b_num # None THEN "Greater"
        ELSE StrCmp(a, b)

\* A loop that goes on past the shorter sequence: the record with components
\* left over is Greater.
RECURSIVE ComponentsCmpPadded(_, _, _)
ComponentsCmpPadded(as, bs, i) ==
    IF i > Len(as) /\ i > Len(bs) THEN "Equal"
    ELSE IF i > Len(as) THEN "Less"
    ELSE IF i > Len(bs) THEN "Greater"
    ELSE LET c == ComponentCmp(as[i], bs[i])
         IN  IF c # "Equal" THEN c ELSE ComponentsCmpPadded(as, bs, i + 1)

\* for (a, b) in self.components.iter().zip(&other.components), from index i:
\* the first verdict that is not Equal, "Equal" when the zip is exhausted.
RECURSIVE ComponentsCmp(_, _, _)
ComponentsCmp(as, bs, i) ==
    IF i > Len(as) \/ i > Len(bs) THEN "Equal"
    ELSE LET c == ComponentCmp(as[i], bs[i])
         IN  IF c # "Equal" THEN c ELSE ComponentsCmp(as, bs, i + 1)

\* A pre-release match whose third arm repeats the second.
PreReleaseCmpOneSided(a, b) ==
    IF a = None /\ b = None THEN "Equal"
    ELSE IF a = None THEN "Greater"
    ELSE IF b = None THEN "Greater"
    ELSE StrCmp(ToLowercase(a[1]), ToLowercase(b[1]))

\* A pre-release match that compares the texts as they are.
PreReleaseCmpCaseSensitive(a, b) ==
    IF a = None /\ b = None THEN "Equal"
    ELSE IF a = None THEN "Greater"
    ELSE IF b = None THEN "Less"
    ELSE StrCmp(a[1], b[1])

\* match (&self.pre_release, &other.pre_release)
PreReleaseCmp(a, b) ==
    IF a = None /\ b = None THEN "Equal"
    ELSE IF a = None THEN "Greater"
    ELSE IF b = None THEN "Less"
    ELSE StrCmp(ToLowercase(a[1]), ToLowercase(b[1]))

\* Option<String>::cmp
OptionStrCmp(a, b) ==
    IF a = None /\ b = None THEN "Equal"
    ELSE IF a = None THEN "Less"
    ELSE IF b = None THEN "Greater"
    ELSE StrCmp(a[1], b[1])

\* A cmp that breaks a tie of the pre-releases by the build metadata.
CmpWithMetadata(self, other) ==
    LET epoch_cmp == OptionU64Cmp(self.epoch, other.epoch)
        comp_cmp  == ComponentsCmp(self.components, other.components, 1)
        pre_cmp   == PreReleaseCmp(self.pre_release, other.pre_release)
    IN  IF epoch_cmp # "Equal" THEN epoch_cmp
        ELSE IF comp_cmp # "Equal" THEN comp_cmp
        ELSE IF pre_cmp # "Equal" THEN pre_cmp
        ELSE OptionStrCmp(self.build_metadata, other.build_metadata)

\* Version::cmp
Cmp(self, other) ==
    LET epoch_cmp == OptionU64Cmp(self.epoch, other.epoch)
        comp_cmp  == ComponentsCmp(self.components, other.components, 1)
    IN  IF epoch_cmp # "Equal" THEN epoch_cmp
        ELSE IF comp_cmp # "Equal" THEN comp_cmp
        ELSE PreReleaseCmp(self.pre_release, other.pre_release)

---------------------------------------------------------------------------
(* impl Display for Version, impl Debug for Version *)

\* Display::fmt.  string.remove(string.len() - 1) panics on an empty
\* string; removed is the byte it takes out (0 when it panicked).
DisplayFmt(v) ==
    LET epoch_part == IF v.epoch # None THEN U64ToString(v.epoch[1]) \o <<COLON>> ELSE <<>>
        string     == epoch_part
                        \o Concat([i \in DOMAIN v.components |-> v.components[i] \o <<DOT>>])
    IN  IF string = <<>>
        THEN [panicked |-> TRUE, removed |-> 0, text |-> <<>>]
        ELSE [panicked |-> FALSE,
              removed  |-> string[Len(string)],
              text     |-> SubSeq(string, 1, Len(string) - 1)
                             \o (IF v.pre_release # None
                                 THEN <<HYPHEN>> \o v.pre_release[1] ELSE <<>>)
                             \o (IF v.build_metadata # None
                                 THEN <<PLUS>> \o v.build_metadata[1] ELSE <<>>)]

\* <str as Debug>::fmt on printable ASCII: quoted, with " and \ escaped.
StrDebug(s) ==
    <<QUOTE>>
      \o Concat([i \in DOMAIN s |->
                    IF s[i] \in {QUOTE, BSLASH} THEN <<BSLASH, s[i]>> ELSE <<s[i]>>])
      \o <<QUOTE>>

\* <Vec<String> as Debug>::fmt: [e1, e2, ...]
VecDebug(xs) ==
    Str(<<"[">>)
      \o Concat([i \in DOMAIN xs |->
                    (IF i > 1 THEN Str(<<",", " ">>) ELSE <<>>) \o StrDebug(xs[i])])
      \o Str(<<"]">>)

\* The text of the Debug rendering for given field values.
DebugLine(epoch, components, pre_release, build_metadata) ==
    Str(<<"e", "p", "o", "c", "h", ":">>) \o epoch
      \o Str(<<" ", "c", "o", "m", "p", "o", "n", "e", "n", "t", "s", ":">>) \o VecDebug(components)
      \o Str(<<" ", "p", "r", "e", "_", "r", "e", "l", "e", "a", "s", "e", ":">>) \o pre_release
      \o Str(<<" ", "b", "u", "i", "l", "d", "_", "m", "e", "t", "a", "d", "a", "t", "a", ":">>)
      \o build_metadata

UnwrapOrDefaultU64(o) == IF o = None THEN 0 ELSE o[1]
UnwrapOrDefaultStr(o) == IF o = None THEN <<>> ELSE o[1]

\* A Debug that renders the build metadata in the fourth field.
DebugFmtTrueMetadata(v) ==
    DebugLine(U64ToString(UnwrapOrDefaultU64(v.epoch)),
              v.components,
              UnwrapOrDefaultStr(v.pre_release),
              UnwrapOrDefaultStr(v.build_metadata))

\* Debug::fmt: build_metadata is bound to self.epoch.unwrap_or_default().
DebugFmt(v) ==
    DebugLine(U64ToString(UnwrapOrDefaultU64(v.epoch)),
              v.components,
              UnwrapOrDefaultStr(v.pre_release),
              U64ToString(UnwrapOrDefaultU64(v.epoch)))

---------------------------------------------------------------------------
(* fn main *)

EX_USAGE == 64

\* The words main prints between the two arguments for an Ordering.
Phrase(ordering) ==
    CASE ordering = "Equal"   -> "is equal to"
      [] ordering = "Less"    -> "is less than"
      [] ordering = "Greater" -> "is greater than"

\* main on the arguments after the program name: the usage exit when they
\* are not two, else the phrase for version1.cmp(&version2), where version1
\* and version2 are the argument Strings themselves.
Main(argv) ==
    IF Len(argv) # 2
    THEN [stdout |-> "there must be two arguments", exit |-> EX_USAGE]
    ELSE [stdout |-> Phrase(StrCmp(argv[1], argv[2])), exit |-> 0]

---------------------------------------------------------------------------
(* Inputs *)

MaxLen == 3        \* longest string over Alphabet given to one parse
MaxPairLen == 2    \* longest string over PairAlphabet in a pair of arguments
MaxTripleLen == 3  \* longest string over TripleAlphabet in a chain of three

Alphabet       == {COLON, PLUS, HYPHEN, DOT, Code("0"), Code("1"), Code("a")}
PairAlphabet   == {COLON, PLUS, HYPHEN, DOT, Code("1"), Code("a")}
TripleAlphabet == {DOT, Code("a")}

\* Every string over A of at most n bytes, the empty string included.
RawStrings(A, n) == UNION {[1..k -> A] : k \in 0..n}

\* The strings parsed by the tests of src/src/lib.rs.
TestStrings ==
    { Str(<<"1", ".", "2", ".", "3", "-", "a", "l", "p", "h", "a", "+", "0", "0", "1">>),
      Str(<<"1", ".", "2", ".", "3", "-", "b", "e", "t", "a", "+", "0", "0", "2">>),
      Str(<<"2", "0", "2", "3", ".", "0", "3", ".", "0", "1">>),
      Str(<<"2", ".", "s", "j", "f", ".", "5", "d", "j", "f">>),
      Str(<<"1", ":", "2", ".", "3", ".", "4">>),
      Str(<<"1", ".", "0", ".", "0", "-", "S", "N", "A", "P", "S", "H", "O", "T">>) }

\* The strings of the doc examples and of Default::default.
DocStrings ==
    { Str(<<"1", ":", "1", "2", "3", ".", "5", "4", "3", ".", "5", "7", "-", "a", "l", "p", "h", "a", "+", "0", "0", "1">>),
      Str(<<"1", ":", "1", "2", "3", ".", "5", "4", "3", ".", "5", "6", "-", "b", "e", "t", "a", "+", "0", "0", "2">>),
      Str(<<"1", ":", "2", "3", "4", "2", "3", ".", "5", "5", "3", ".", "8", "4", "5", "-", "r", "c", "+", "2", "5", "5">>),
      Str(<<"0", ".", "0", ".", "1">>) }

\* Further version strings: numeric and textual components, sequences of
\* different lengths, epochs, pre-releases that differ in case, build metadata.
ScenarioStrings ==
    { Str(<<"1", ".", "2">>),
      Str(<<"1", ".", "2", ".", "3">>),
      Str(<<"1", ".", "2", ".", "5">>),
      Str(<<"1", ".", "1", "0">>),
      Str(<<"1", ".", "9">>),
      Str(<<"1", ".", "a">>),
      Str(<<"1", ".", "b">>),
      Str(<<"0", "1", ".", "2">>),
      Str(<<"a", ".", "b">>),
      Str(<<"1", ":", "1", ".", "2">>),
      Str(<<"2", ":", "1", ".", "2">>),
      Str(<<"0", "1", ":", "1", ".", "2">>),
      Str(<<"2", ":", "1", ".", "a", "-", "b", "+", "1">>),
      Str(<<"1", ":", "1", ".", "1", "0", "-", "a">>),
      Str(<<"1", ":", "a">>),
      Str(<<"1", ".", "2", "-", "a">>),
      Str(<<"1", ".", "2", "-", "A">>),
      Str(<<"1", ".", "2", "-", "B">>),
      Str(<<"1", ".", "2", "-", "a", "+", "1">>),
      Str(<<"1", ".", "2", "-", "a", "+", "2">>),
      Str(<<"1", ".", "2", "+", "1">>),
      Str(<<"1", ".", "2", "+", "2">>),
      Str(<<"1", ".", "2", ".", "3", "-", "a">>),
      Str(<<"1", ".", "2", "-", "a", "-", "b">>),
      Str(<<"a", "-", "1", ".", "b">>) }

Inputs       == RawStrings(Alphabet, MaxLen) \cup TestStrings \cup DocStrings \cup ScenarioStrings
PairInputs   == RawStrings(PairAlphabet, MaxPairLen) \cup TestStrings \cup DocStrings \cup ScenarioStrings
TripleInputs == RawStrings(TripleAlphabet, MaxTripleLen)

---------------------------------------------------------------------------
(* The state machine: a caller holding argument strings parses them, then  *)
(* compares the records, or renders them; or main is run on the strings.   *)

NoCli == [stdout |-> "", exit |-> 0]

InitWith(argvs) ==
    /\ pc = "start"
    /\ args \in argvs
    /\ vers = <<>>
    /\ verdict = <<>>
    /\ out = <<>>
    /\ cli = NoCli

Init      == InitWith({<<s>> : s \in Inputs})
InitCmp   == InitWith(PairInputs \X PairInputs)
InitTrans == InitWith(TripleInputs \X TripleInputs \X TripleInputs)

\* Version::parse on every argument
ParseArgs ==
    /\ pc = "start"
    /\ vers' = [i \in DOMAIN args |-> Parse(args[i])]
    /\ pc' = "parsed"
    /\ UNCHANGED <<args, verdict, out, cli>>

\* a.cmp(&b), a == b and a != b for every two parsed records (as the
\* operators <, >, == of the tests do)
Compare ==
    /\ pc = "parsed"
    /\ verdict' = [i \in DOMAIN vers |-> [j \in DOMAIN vers |->
                      [cmp |-> Cmp(vers[i], vers[j]),
                       eq  |-> Eq(vers[i], vers[j]),
                       ne  |-> Ne(vers[i], vers[j])]]]
    /\ pc' = "compared"
    /\ UNCHANGED <<args, vers, out, cli>>

\* format!("{}", v) of every parsed record
Display ==
    /\ pc = "parsed"
    /\ out' = [i \in DOMAIN vers |-> DisplayFmt(vers[i])]
    /\ pc' = "displayed"
    /\ UNCHANGED <<args, vers, verdict, cli>>

\* format!("{:?}", v) of every parsed record
Debug ==
    /\ pc = "parsed"
    /\ out' = [i \in DOMAIN vers |-> DebugFmt(vers[i])]
    /\ pc' = "debugged"
    /\ UNCHANGED <<args, vers, verdict, cli>>

\* the binary run on the argument strings
RunMain ==
    /\ pc = "start"
    /\ cli' = Main(args)
    /\ pc' = "exited"
    /\ UNCHANGED <<args, vers, verdict, out>>

Next    == ParseArgs \/ Compare \/ Display \/ Debug \/ RunMain
NextCmp == ParseArgs \/ Compare \/ RunMain

Spec      == Init /\ [][Next]_vars
SpecCmp   == InitCmp /\ [][NextCmp]_vars
SpecTrans == InitTrans /\ [][NextCmp]_vars

---------------------------------------------------------------------------
(* Vocabulary of the properties *)

Orderings == {"Less", "Equal", "Greater"}

Inverse(o) == CASE o = "Less" -> "Greater" [] o = "Greater" -> "Less" [] o = "Equal" -> "Equal"

LessOrEqual(o) == o \in {"Less", "Equal"}

Min(m, n) == IF m < n THEN m ELSE n

IsPrefix(p, s) == Len(p) <= Len(s) /\ SubSeq(s, 1, Len(p)) = p

IsSuffix(p, s) == Len(p) <= Len(s) /\ SubSeq(s, Len(s) - Len(p) + 1, Len(s)) = p

\* x is before y in the lexicographic order of byte strings.
LexLess(x, y) ==
    \E k \in 1..(Len(y)) :
        /\ k <= Len(x) + 1
        /\ \A j \in 1..(k - 1) : x[j] = y[j]
        /\ (k = Len(x) + 1 \/ x[k] < y[k])

LexOrder(x, y) == IF x = y THEN "Equal" ELSE IF LexLess(x, y) THEN "Less" ELSE "Greater"

IsNumeric(tok) == ParseU64(tok) # None

\* The rule for two tokens at the same index, as the specification words it.
TokenRule(x, y) ==
    IF IsNumeric(x) /\ IsNumeric(y)
    THEN (IF ParseU64(x)[1] < ParseU64(y)[1] THEN "Less"
          ELSE IF ParseU64(x)[1] > ParseU64(y)[1] THEN "Greater" ELSE "Equal")
    ELSE IF IsNumeric(x) THEN "Less"
    ELSE IF IsNumeric(y) THEN "Greater"
    ELSE LexOrder(x, y)

\* The indexes of the common prefix at which the tokens of a and b differ.
Deciding(a, b) ==
    {i \in 1..Min(Len(a.components), Len(b.components)) :
        TokenRule(a.components[i], b.components[i]) # "Equal"}

FirstOf(D) == CHOOSE i \in D : \A j \in D : i <= j

\* The rule of the pre-release step, as the specification words it.
PreReleaseRule(p, q) ==
    IF p = None /\ q = None THEN "Equal"
    ELSE IF p = None THEN "Greater"
    ELSE IF q = None THEN "Less"
    ELSE LexOrder(ToLowercase(p[1]), ToLowercase(q[1]))

DifferOnlyInMetadata(a, b) ==
    /\ a.epoch = b.epoch
    /\ a.components = b.components
    /\ a.pre_release = b.pre_release
    /\ a.build_metadata # b.build_metadata

\* Build metadata values put in place of a record's own.
MetaPool == {None, Some(<<>>), Some(Str(<<"1">>)), Some(Str(<<"0", "0", "2">>)), Some(Str(<<"a">>))}

\* Components, pre-release and build metadata put in place of a record's own.
RestPool ==
    { [components |-> <<Str(<<"a">>)>>, pre_release |-> None, build_metadata |-> None],
      [components |-> <<Str(<<"9">>), Str(<<"z">>)>>, pre_release |-> Some(Str(<<"b">>)),
       build_metadata |-> Some(Str(<<"1">>))],
      [components |-> <<Str(<<"0">>)>>, pre_release |-> Some(Str(<<"A">>)), build_metadata |-> None] }

WithRest(v, r) ==
    [epoch |-> v.epoch, components |-> r.components,
     pre_release |-> r.pre_release, build_metadata |-> r.build_metadata]

IsAlnum(c) == IsDigit(c) \/ c \in Code("a")..Code("z") \/ c \in Code("A")..Code("Z")

IsWord(s) == s # <<>> /\ \A i \in DOMAIN s : IsAlnum(s[i])

\* s has the canonical shape [epoch:]c1.c2...cn[-pre][+meta]: the epoch a run
\* of digits, every component, the pre-release and the metadata a non-empty
\* run of letters and digits.
Canonical(s) ==
    LET hasEpoch == \E i \in DOMAIN s : s[i] = COLON
        body     == IF hasEpoch THEN SplitN2(s, COLON)[2] ELSE s
        byPlus   == SplitN2(body, PLUS)
        byHyphen == SplitN2(byPlus[1], HYPHEN)
        comps    == Split(byHyphen[1], {DOT})
    IN  /\ hasEpoch => LET e == SplitN2(s, COLON)[1]
                       IN  e # <<>> /\ \A i \in DOMAIN e : IsDigit(e[i])
        /\ Len(byPlus) = 2 => IsWord(byPlus[2])
        /\ Len(byHyphen) = 2 => IsWord(byHyphen[2])
        /\ \A i \in DOMAIN comps : IsWord(comps[i])

\* c1.c2...cn
RECURSIVE Join(_)
Join(cs) ==
    IF cs = <<>> THEN <<>>
    ELSE IF Len(cs) = 1 THEN cs[1]
    ELSE cs[1] \o <<DOT>> \o Join(Tail(cs))

\* The labels of the Debug rendering and two renderings asserted by the
\* printing test of src/src/lib.rs.
EpochLabel         == Str(<<"e", "p", "o", "c", "h", ":">>)
ComponentsLabel    == Str(<<" ", "c", "o", "m", "p", "o", "n", "e", "n", "t", "s", ":">>)
PreReleaseLabel    == Str(<<" ", "p", "r", "e", "_", "r", "e", "l", "e", "a", "s", "e", ":">>)
BuildMetadataLabel == Str(<<" ", "b", "u", "i", "l", "d", "_", "m", "e", "t", "a", "d", "a", "t", "a", ":">>)
TestV1      == Str(<<"1", ".", "2", ".", "3", "-", "a", "l", "p", "h", "a", "+", "0", "0", "1">>)
TestV1Debug == Str(<<"e", "p", "o", "c", "h", ":", "0", " ", "c", "o", "m", "p", "o", "n", "e", "n", "t", "s", ":", "[", "\"", "1", "\"", ",", " ", "\"", "2", "\"", ",", " ", "\"", "3", "\"", "]", " ", "p", "r", "e", "_", "r", "e", "l", "e", "a", "s", "e", ":", "a", "l", "p", "h", "a", " ", "b", "u", "i", "l", "d", "_", "m", "e", "t", "a", "d", "a", "t", "a", ":", "0">>)
TestV4      == Str(<<"1", ":", "2", ".", "3", ".", "4">>)
TestV4Debug == Str(<<"e", "p", "o", "c", "h", ":", "1", " ", "c", "o", "m", "p", "o", "n", "e", "n", "t", "s", ":", "[", "\"", "2", "\"", ",", " ", "\"", "3", "\"", ",", " ", "\"", "4", "\"", "]", " ", "p", "r", "e", "_", "r", "e", "l", "e", "a", "s", "e", ":", " ", "b", "u", "i", "l", "d", "_", "m", "e", "t", "a", "d", "a", "t", "a", ":", "1">>)

---------------------------------------------------------------------------
(* Properties *)

\* C1: compare is transitive over the records parse produces: if
\* compare(a,b) and compare(b,c) are Less or Equal then so is compare(a,c),
\* and compare(a,c) is Less when one of the two is Less, Equal when both are
\* Equal.
C1_Transitive ==
    pc = "compared" =>
        \A i, j, k \in DOMAIN vers :
            LessOrEqual(verdict[i][j].cmp) /\ LessOrEqual(verdict[j][k].cmp)
            => /\ LessOrEqual(verdict[i][k].cmp)
               /\ ("Less" \in {verdict[i][j].cmp, verdict[j][k].cmp} => verdict[i][k].cmp = "Less")
               /\ (verdict[i][j].cmp = "Equal" /\ verdict[j][k].cmp = "Equal"
                      => verdict[i][k].cmp = "Equal")

\* C2: compare(a,b) is one of Less, Equal, Greater and compare(b,a) is its
\* inverse; compare(a,a) is Equal; a == b implies compare(a,b) = Equal.
C2_Antisymmetric ==
    pc = "compared" =>
        \A i, j \in DOMAIN vers :
            /\ verdict[i][j].cmp \in Orderings
            /\ verdict[j][i].cmp = Inverse(verdict[i][j].cmp)
            /\ verdict[i][i].cmp = "Equal"
            /\ (verdict[i][j].eq => verdict[i][j].cmp = "Equal")

\* C2's case: two different argument strings whose records are ordered one
\* way and the other by the pre-release of one of them alone.
C2_Witness ==
    /\ pc = "compared"
    /\ Len(vers) = 2
    /\ vers[1].pre_release # None
    /\ vers[2].pre_release = None
    /\ verdict[1][2].cmp = "Less"
    /\ verdict[2][1].cmp = "Greater"
    /\ vers[1].components = vers[2].components

\* C3: the display of parse(s) is s for every s of the canonical shape,
\* with or without an epoch prefix, with one component or several.
C3_RoundTrip ==
    pc = "displayed" =>
        \A i \in DOMAIN args :
            Canonical(args[i]) => ~out[i].panicked /\ out[i].text = args[i]

\* C4: the verdict of compare does not change when the build metadata of
\* either record is replaced; records that differ only in build metadata
\* compare Equal and are unequal under == (and !=).
C4_MetadataIgnored ==
    pc = "compared" /\ Len(vers) = 2 =>
        /\ \A m1, m2 \in MetaPool :
               Cmp([vers[1] EXCEPT !.build_metadata = m1],
                   [vers[2] EXCEPT !.build_metadata = m2]) = verdict[1][2].cmp
        /\ DifferOnlyInMetadata(vers[1], vers[2])
           => /\ verdict[1][2].cmp = "Equal"
              /\ ~verdict[1][2].eq
              /\ verdict[1][2].ne

\* C4's case: two parsed records that differ only in build metadata, compared.
C4_Witness ==
    /\ pc = "compared"
    /\ Len(vers) = 2
    /\ DifferOnlyInMetadata(vers[1], vers[2])
    /\ vers[1].build_metadata # None
    /\ vers[2].build_metadata # None
    /\ verdict[1][2].cmp = "Equal"

\* C5: given two arguments, main prints the verdict of
\* compare(parse(s1), parse(s2)).
C5_MainUsesCompare ==
    pc = "exited" /\ Len(args) = 2 =>
        cli.stdout = Phrase(Cmp(Parse(args[1]), Parse(args[2])))

\* C6: parse returns at least one component for every string; the display
\* and compare complete on every parsed record; the byte the display removes
\* is the '.' it appended after the last component.
C6_NoFailure ==
    /\ pc \in {"parsed", "compared", "displayed", "debugged"} =>
           \A i \in DOMAIN args : Len(vers[i].components) >= 1
    /\ pc = "compared" =>
           \A i, j \in DOMAIN vers : verdict[i][j].cmp \in Orderings
    /\ pc = "displayed" =>
           \A i \in DOMAIN vers :
               /\ ~out[i].panicked
               /\ out[i].removed = DOT
               /\ IsPrefix((IF vers[i].epoch # None
                            THEN U64ToString(vers[i].epoch[1]) \o <<COLON>> ELSE <<>>)
                             \o Join(vers[i].components)
                             \o (IF vers[i].pre_release # None THEN <<HYPHEN>> ELSE <<>>)
                             \o (IF vers[i].pre_release = None /\ vers[i].build_metadata # None
                                 THEN <<PLUS>> ELSE <<>>),
                           out[i].text)

\* C6's case: a string made only of delimiters, with a candidate epoch that
\* is no number, parsed and displayed.
C6_Witness ==
    /\ pc = "displayed"
    /\ args[1] = Str(<<":", ".", "-">>)
    /\ vers[1].epoch = None
    /\ vers[1].components = <<<<>>, <<>>>>
    /\ out[1].text = Str(<<".", "-">>)

\* C7: a present epoch against an absent one is Greater; two different
\* present epochs compare numerically; in both cases the verdict stays the
\* same whatever the components, pre-release and build metadata are.
C7_EpochStep ==
    pc = "compared" /\ Len(vers) = 2 =>
        LET a == vers[1]
            b == vers[2]
        IN  /\ a.epoch # None /\ b.epoch = None => verdict[1][2].cmp = "Greater"
            /\ a.epoch # None /\ b.epoch # None /\ a.epoch[1] # b.epoch[1]
               => verdict[1][2].cmp = (IF a.epoch[1] < b.epoch[1] THEN "Less" ELSE "Greater")
            /\ a.epoch # b.epoch
               => \A r1, r2 \in RestPool :
                      Cmp(WithRest(a, r1), WithRest(b, r2)) = verdict[1][2].cmp

\* C7's case: an epoch against none, where the components alone would give
\* the opposite verdict.
C7_Witness ==
    /\ pc = "compared"
    /\ Len(vers) = 2
    /\ vers[1].epoch # None
    /\ vers[2].epoch = None
    /\ Deciding(vers[1], vers[2]) # {}
    /\ TokenRule(vers[1].components[1], vers[2].components[1]) = "Less"
    /\ vers[1].pre_release # None
    /\ verdict[1][2].cmp = "Greater"

\* C8: with equal epochs, compare is decided by the first index of the
\* common prefix whose tokens differ under the token rule (numeric against
\* numeric by value, numeric below text, text against text by bytes); when
\* there is none, whatever components follow, it is decided by the
\* pre-release step alone.
C8_ComponentStep ==
    pc = "compared" /\ Len(vers) = 2 /\ vers[1].epoch = vers[2].epoch =>
        LET a == vers[1]
            b == vers[2]
            D == Deciding(a, b)
        IN  verdict[1][2].cmp =
                IF D # {}
                THEN TokenRule(a.components[FirstOf(D)], b.components[FirstOf(D)])
                ELSE PreReleaseRule(a.pre_release, b.pre_release)

\* C8's case: one component sequence a proper prefix of the other, the
\* longer one going on with a component that is never examined.
C8_Witness ==
    /\ pc = "compared"
    /\ Len(vers) = 2
    /\ vers[1].epoch = vers[2].epoch
    /\ Len(vers[1].components) < Len(vers[2].components)
    /\ IsPrefix(vers[1].components, vers[2].components)
    /\ vers[1].pre_release = None
    /\ vers[2].pre_release = None
    /\ verdict[1][2].cmp = "Equal"
    /\ verdict[1][2].ne

\* C9: with equal epochs and components that tie over the common prefix,
\* compare is Equal when both pre-releases are absent, Greater when only the
\* first is absent, Less when only the second is, else the order of the two
\* texts folded to lower case; pre-releases that differ only in case compare
\* Equal though the records are not equal.
C9_PreReleaseStep ==
    pc = "compared" /\ Len(vers) = 2 /\ vers[1].epoch = vers[2].epoch
                    /\ Deciding(vers[1], vers[2]) = {} =>
        LET p == vers[1].pre_release
            q == vers[2].pre_release
        IN  /\ verdict[1][2].cmp = PreReleaseRule(p, q)
            /\ p # None /\ q # None /\ p # q /\ ToLowercase(p[1]) = ToLowercase(q[1])
               => verdict[1][2].cmp = "Equal" /\ ~verdict[1][2].eq

\* C9's case: two pre-releases whose order as raw text is the opposite of
\* their order once folded to lower case.
C9_Witness ==
    /\ pc = "compared"
    /\ Len(vers) = 2
    /\ vers[1].components = vers[2].components
    /\ vers[1].pre_release # None
    /\ vers[2].pre_release # None
    /\ LexLess(vers[2].pre_release[1], vers[1].pre_release[1])
    /\ verdict[1][2].cmp = "Less"

\* C10: the Debug rendering shows the epoch (0 when absent), the component
\* list, the pre-release (empty when absent) and, labelled build_metadata,
\* the epoch value again; it is the same whatever the build metadata is.
C10_DebugEchoesEpoch ==
    pc = "debugged" =>
        \A i \in DOMAIN vers :
            LET v == vers[i]
                e == IF v.epoch = None THEN Str(<<"0">>) ELSE U64ToString(v.epoch[1])
                p == IF v.pre_release = None THEN <<>> ELSE v.pre_release[1]
            IN  /\ IsPrefix(EpochLabel \o e \o ComponentsLabel \o Str(<<"[">>), out[i])
                /\ IsSuffix(Str(<<"]">>) \o PreReleaseLabel \o p \o BuildMetadataLabel \o e, out[i])
                /\ \A m \in MetaPool : DebugFmt([v EXCEPT !.build_metadata = m]) = out[i]
                /\ args[i] = TestV1 => out[i] = TestV1Debug
                /\ args[i] = TestV4 => out[i] = TestV4Debug

\* C10's case: a record with build metadata and no epoch, rendered with 0
\* in the field labelled build_metadata.
C10_Witness ==
    /\ pc = "debugged"
    /\ vers[1].build_metadata = Some(Str(<<"0", "0", "1">>))
    /\ vers[1].epoch = None
    /\ IsSuffix(BuildMetadataLabel \o Str(<<"0">>), out[1])

===========================================================================
